---- MODULE Spec2Model ----
(***************************************************************************)
(* The session protocol engine of client.py: the socket.io start/stop      *)
(* handlers, the background thread running VoiceAgent.run(), the sender    *)
(* and receiver tasks of the event loop, the PortAudio capture callback    *)
(* and the Speaker's playback thread.                                      *)
(*                                                                         *)
(* Granularity.  A task of the event loop runs without interruption by     *)
(* another task between two awaits, so one action of a task is one such    *)
(* segment: the completion of the await the task is suspended on followed  *)
(* by the synchronous code up to the next await.  Threads (the socket.io   *)
(* handlers, the capture callback, the playback thread) interleave with    *)
(* the loop anywhere, so the synchronous code that shares data with a      *)
(* thread (Speaker.stop, Speaker.__exit__) is split into its steps.        *)
(***************************************************************************)
EXTENDS Integers, Sequences, FiniteSets, TLC

\* ------------------------------------------------------------------ bounds
MaxReq == 2     \* FunctionCallRequest messages the peer sends in a session
MaxBin == 2     \* binary audio frames the peer sends in a session
MaxQueue == 2   \* frames held by mic_audio_queue before a handoff times out
MaxTime == 3    \* readings of time.time() range over 1..MaxTime
MaxStop == 2    \* stop_voice_agent events delivered by socket.io
MaxCap == 2     \* captured frames that are told apart (numbered); later ones are not
MaxStart == 2   \* start_voice_agent events that create a VoiceAgent

\* ---------------------------------------------------------------- constants
NoTime == 0     \* None: time.time() is positive, so 0 is falsy and never read
Tasks == {"run", "sender", "receiver"}
Resources == {"audio", "stream", "spkStream", "spkThread"}
FunctionNames == {"unknown", "plain", "agent_filler", "end_call"}
FUNCTION_MAP == {"plain", "agent_filler", "end_call"}

NoMsg == [type |-> "none", role |-> "", content |-> "", name |-> "", id |-> 0]
TextMsg(t) == [NoMsg EXCEPT !.type = t]
ConversationText(r, c) == [NoMsg EXCEPT !.type = "ConversationText", !.role = r, !.content = c]
FunctionCallRequest(n, i) == [NoMsg EXCEPT !.type = "FunctionCallRequest", !.name = n, !.id = i]
Bytes(f) == [NoMsg EXCEPT !.type = "bytes", !.id = f]

\* A session's environment follows one script: "control" is the session of
\* handshake, control tags, close and stop requests; "calls" the function calls and
\* the farewell signals; "audio" the agent's audio, barge-in and the audio of the
\* farewell; "timing" the
\* conversation whose latencies are logged, with the clock advancing.
Scripts == {"control", "calls", "audio", "timing"}
\* The scripts in which socket.io delivers stop_voice_agent events.
StopScripts == {"control", "calls"}
\* The scripts in which the captured frames are numbered.
CaptureScripts == {"control"}

\* Text messages that carry nothing the code reads besides their tag.
PlainTags == {"UserStartedSpeaking", "FunctionCalling", "Welcome", "CloseConnection",
              "AgentStartedSpeaking", "AgentAudioDone", "Unrecognized"}
\* Tags the main loop has no branch for.
IgnoredTags == {"AgentStartedSpeaking", "AgentAudioDone", "Unrecognized"}

NoExc == <<"none">>
NotFound(name) == <<"Function", name, "not found">>
HandlerError == <<"handler raised">>
ConnectionClosed == <<"connection closed">>
ResultOutput == <<"result">>
ErrorOutput(e) == <<"error", e>>

VARIABLES
  script,           \* what the session's environment does: one of Scripts
  voice_agent,      \* the global: "None" or "agent"
  stopCalls,        \* stop_voice_agent events handled so far
  unknownSeen,      \* the log shows a message with a tag the program does not know
  stopAt,           \* where run(), sender and receiver were when the stop event found the agent
  runPc,            \* background thread / run() task
  loop,             \* voice_agent.loop: "none", "set", "closed"
  is_running,
  setupResult,      \* what setup() returned: "pending", "ok", "failed"
  settingsSent,     \* Settings messages written to the transport
  ws,               \* self.ws: "none", "open", "closing", "closed"
  wsClosedBy,       \* who took the transport out of "open": "none", "client", "peer"
  closes,           \* the client's calls of ws.close(), by the place that made them
  failed,           \* the tasks (sender, receiver) a failed transport read or write ended
  audio,            \* self.audio: "none", "live", "terminated"
  stream,           \* self.stream: "none", "open", "closed"
  released,         \* per resource, how many times it was released
  cancel,           \* per task, a cancellation requested and not yet raised
  sendPc,
  mic_audio_queue,  \* frames handed off by the callback: their numbers, 0 if not numbered
  data,             \* the sender's local: the frame it popped, -1 if none
  capCount,         \* numbered frames handed off so far: they are 1..capCount
  sent,             \* numbered frames written to the transport by the sender, in order
  recvPc,
  message,          \* the inbound message being dispatched
  function_name,
  function_call_id,
  exc,              \* the exception caught by the dispatch block
  last_user_message,
  last_function_response_time,
  in_function_chain,
  latency,          \* the last decision latency logged
  reqCount,         \* FunctionCallRequests consumed; their call ids are 1..reqCount
  responses,        \* per call id, the outputs of the FunctionCallResponses sent
  injected,         \* per call id, the InjectAgentMessages sent while dispatching it
  speaking_started,
  audio_done,
  tailElapsed,      \* asyncio.sleep(3.5) of wait_for_farewell_completion returned
  ecCompleted,      \* the end_call branch closed the transport and cleared is_running
  binAtFarewell,    \* binCount when wait_for_farewell_completion was entered, -1 if never
  spkStream,        \* Speaker._stream: "none", "open", "closed"
  thrPc,            \* the playback thread: "none", "get", "write", "exited"
  stopFlag,         \* Speaker._stop
  pq,               \* Speaker._queue
  held,             \* the frame _play popped and has not written yet
  played,           \* frames written to the output stream, in order
  binCount,         \* binary frames consumed; they are numbered 1..binCount
  bargeSnap,        \* frames queued when the last Speaker.stop() was entered
  playedAtStop,     \* Len(played) when the last Speaker.stop() returned, -1 if none
  discarded,        \* frames Speaker.stop() took off the queue
  now,              \* time.time()
  \* The start and stop events over several agents (specification EventsSpec).
  agentRef,         \* the global voice_agent: 0 for None, or the number of the instance
  created,          \* VoiceAgent instances created; each came with a background task
  bgPc,             \* per background task, its position in run_async_voice_agent / run()
  bgRuns,           \* per background task, the instance whose run() it executes, 0 if none
  agLoop,           \* per instance, self.loop: 0 for None, or the task that created the loop
  agRunning,        \* per instance, self.is_running
  agWs,             \* per instance, self.ws: "none", "open", "closed"
  bgCancel          \* per background task, a cancellation of its run() task requested

evVars == <<agentRef, created, bgPc, bgRuns, agLoop, agRunning, agWs, bgCancel>>
globalVars == <<script, voice_agent, stopCalls, unknownSeen, stopAt, evVars>>
runVars == <<runPc, loop, setupResult, settingsSent>>
wsVars == <<ws, wsClosedBy, closes, failed>>
micVars == <<audio, stream, released>>
sndVars == <<sendPc, mic_audio_queue, data, capCount, sent>>
rcvVars == <<recvPc, message, function_name, function_call_id, exc>>
latVars == <<last_user_message, last_function_response_time, in_function_chain, latency>>
callVars == <<reqCount, responses, injected>>
ecVars == <<speaking_started, audio_done, tailElapsed, ecCompleted, binAtFarewell>>
thrVars == <<thrPc, held, played>>
spkVars == <<spkStream, stopFlag, pq, binCount, bargeSnap, playedAtStop, discarded>>

vars == <<globalVars, runVars, wsVars, micVars, sndVars, rcvVars, latVars, callVars,
          ecVars, thrVars, spkVars, is_running, cancel, now>>

\* The state of the one session the actions of Spec follow.
sessionVars == <<script, voice_agent, stopCalls, unknownSeen, stopAt, runVars, wsVars,
                 micVars, sndVars, rcvVars, latVars, callVars, ecVars, thrVars, spkVars,
                 is_running, cancel, now>>

\* ------------------------------------------------------------------ helpers
\* Positions at which the receiver runs synchronous code: the loop's only thread is
\* busy, so no other task of the loop takes a step.
RecvBusy == {"dispatch", "stop_check", "stop_get", "exit", "join"}
LoopFree == recvPc \notin RecvBusy

RunAlive == runPc \in {"setup", "setup_send", "setup_ret", "mic", "gather", "gather_c",
                       "finally", "fin_close"}
SenderAlive == sendPc \in {"start", "get", "send"}
ReceiverAlive == recvPc \notin {"idle", "done"}
Alive(t) == CASE t = "run" -> RunAlive
              [] t = "sender" -> SenderAlive
              [] t = "receiver" -> ReceiverAlive

Release(r) == [released EXCEPT ![r] = @ + 1]

Init ==
  /\ script \in Scripts
  /\ voice_agent = "None" /\ stopCalls = 0 /\ unknownSeen = FALSE /\ stopAt = <<>>
  /\ runPc = "none" /\ loop = "none" /\ is_running = FALSE
  /\ setupResult = "pending" /\ settingsSent = 0
  /\ ws = "none" /\ wsClosedBy = "none" /\ closes = <<>> /\ failed = {}
  /\ audio = "none" /\ stream = "none"
  /\ released = [r \in Resources |-> 0]
  /\ cancel = [t \in Tasks |-> FALSE]
  /\ sendPc = "idle" /\ mic_audio_queue = <<>>
  /\ data = -1 /\ capCount = 0 /\ sent = <<>>
  /\ recvPc = "idle" /\ message = NoMsg
  /\ function_name = "" /\ function_call_id = 0 /\ exc = NoExc
  /\ last_user_message = NoTime /\ last_function_response_time = NoTime
  /\ in_function_chain = FALSE /\ latency = <<"none", 0>>
  /\ reqCount = 0
  /\ responses = [i \in 1..MaxReq |-> <<>>]
  /\ injected = [i \in 1..MaxReq |-> <<>>]
  /\ speaking_started = FALSE /\ audio_done = FALSE
  /\ tailElapsed = FALSE /\ ecCompleted = FALSE /\ binAtFarewell = -1
  /\ spkStream = "none" /\ thrPc = "none" /\ stopFlag = FALSE
  /\ pq = <<>> /\ held = 0 /\ played = <<>> /\ binCount = 0
  /\ bargeSnap = {} /\ playedAtStop = -1 /\ discarded = {}
  /\ now = 1
  /\ agentRef = 0 /\ created = 0
  /\ bgPc = [t \in 1..MaxStart |-> "none"]
  /\ bgRuns = [t \in 1..MaxStart |-> 0]
  /\ agLoop = [a \in 1..MaxStart |-> 0]
  /\ agRunning = [a \in 1..MaxStart |-> FALSE]
  /\ agWs = [a \in 1..MaxStart |-> "none"]
  /\ bgCancel = [t \in 1..MaxStart |-> FALSE]

\* ------------------------------------------------- socket.io event handlers
\* handle_start_voice_agent: creates the VoiceAgent and starts the background task
\* when no agent exists; otherwise it does nothing.  The model follows one agent, from
\* the start event that creates it: the event is taken while no task was ever started.
handle_start_voice_agent ==
  /\ voice_agent = "None" /\ runPc = "none"
  /\ voice_agent' = "agent"
  /\ runPc' = "spawned"
  /\ UNCHANGED <<script, stopCalls, unknownSeen, stopAt, evVars, loop, setupResult, settingsSent, wsVars, micVars,
                 sndVars, rcvVars, latVars, callVars, ecVars, thrVars, spkVars,
                 is_running, cancel, now>>

\* handle_stop_voice_agent, with an agent: clears the running flag, cancels every
\* task of the agent's loop if the loop is set and open, and forgets the agent.
\* Without an agent it does nothing.  The events counted are those after the start
\* event: before it there is no agent either.
\* Variant: a stop handler that keeps the global after stopping the agent.
StopEffectKeepsAgent ==
  IF voice_agent = "agent"
  THEN /\ is_running' = FALSE
       /\ cancel' = IF loop = "set" THEN [t \in Tasks |-> cancel[t] \/ Alive(t)] ELSE cancel
       /\ voice_agent' = voice_agent
  ELSE UNCHANGED <<is_running, cancel, voice_agent>>

\* Variant: a stop handler that clears the flag and cancels nothing.
StopEffectNoCancel ==
  IF voice_agent = "agent"
  THEN /\ is_running' = FALSE
       /\ cancel' = cancel
       /\ voice_agent' = "None"
  ELSE UNCHANGED <<is_running, cancel, voice_agent>>

StopEffect ==
  IF voice_agent = "agent"
  THEN /\ is_running' = FALSE
       /\ cancel' = IF loop = "set" THEN [t \in Tasks |-> cancel[t] \/ Alive(t)] ELSE cancel
       /\ voice_agent' = "None"
  ELSE UNCHANGED <<is_running, cancel, voice_agent>>

handle_stop_voice_agent ==
  /\ script \in StopScripts /\ runPc # "none" /\ stopCalls < MaxStop
  /\ stopCalls' = stopCalls + 1
  /\ StopEffect
  /\ stopAt' = IF voice_agent = "agent"
               THEN <<runPc, IF sendPc \in {"get", "send"} THEN sendPc ELSE "other",
                             IF recvPc = "recv" THEN "recv" ELSE "other">>
               ELSE stopAt
  /\ UNCHANGED <<script, unknownSeen, evVars, runVars, wsVars, micVars, sndVars, rcvVars, latVars,
                 callVars, ecVars, thrVars, spkVars, now>>

\* ------------------------------------------------ run_async_voice_agent
\* voice_agent.set_loop(loop): the global is read again, so after a stop it is None
\* and the AttributeError ends the thread in the outer except (no loop to close).
BgSetLoop ==
  /\ runPc = "spawned"
  /\ IF voice_agent = "agent"
     THEN loop' = "set" /\ runPc' = "loop_set"
     ELSE loop' = loop /\ runPc' = "aborted"
  /\ UNCHANGED <<globalVars, setupResult, settingsSent, wsVars, micVars, sndVars,
                 rcvVars, latVars, callVars, ecVars, thrVars, spkVars, is_running,
                 cancel, now>>

\* voice_agent.run() is evaluated: the coroutine object exists, the task does not yet.
\* With the global None the AttributeError is logged and the finally closes the loop.
BgCreateCoroutine ==
  /\ runPc = "loop_set"
  /\ IF voice_agent = "agent"
     THEN loop' = loop /\ runPc' = "coro"
     ELSE loop' = "closed" /\ runPc' = "done"
  /\ UNCHANGED <<globalVars, setupResult, settingsSent, wsVars, micVars, sndVars,
                 rcvVars, latVars, callVars, ecVars, thrVars, spkVars, is_running,
                 cancel, now>>

\* loop.run_until_complete wraps the coroutine in a task, which all_tasks() now lists.
BgRunUntilComplete ==
  /\ runPc = "coro"
  /\ runPc' = "setup"
  /\ UNCHANGED <<globalVars, loop, setupResult, settingsSent, wsVars, micVars, sndVars,
                 rcvVars, latVars, callVars, ecVars, thrVars, spkVars, is_running,
                 cancel, now>>

\* The finally of run_async_voice_agent: nothing is pending once run() is over.
BgLoopClose ==
  /\ runPc = "returned"
  /\ loop' = "closed"
  /\ runPc' = "done"
  /\ UNCHANGED <<globalVars, setupResult, settingsSent, wsVars, micVars, sndVars,
                 rcvVars, latVars, callVars, ecVars, thrVars, spkVars, is_running,
                 cancel, now>>

\* ------------------------------------------------------- VoiceAgent.setup
\* The credential is missing or websockets.connect raises: setup() returns False.
SetupFails ==
  /\ runPc = "setup" /\ ~cancel["run"]
  /\ setupResult' = "failed"
  /\ ws' = ws
  /\ runPc' = "setup_ret"
  /\ UNCHANGED <<globalVars, loop, settingsSent, wsClosedBy, closes, failed, micVars, sndVars,
                 rcvVars, latVars, callVars, ecVars, thrVars, spkVars, is_running,
                 cancel, now>>

\* Variant: a setup() that returns True once connected, without sending the settings.
SetupConnectsOnly ==
  /\ runPc = "setup" /\ ~cancel["run"]
  /\ ws' = "open"
  /\ setupResult' = "ok"
  /\ runPc' = "setup_ret"
  /\ UNCHANGED <<globalVars, loop, settingsSent, wsClosedBy, closes, failed, micVars, sndVars,
                 rcvVars, latVars, callVars, ecVars, thrVars, spkVars, is_running,
                 cancel, now>>

\* websockets.connect returns: self.ws is the open connection.
SetupConnects ==
  /\ runPc = "setup" /\ ~cancel["run"]
  /\ ws' = "open"
  /\ runPc' = "setup_send"
  /\ UNCHANGED <<globalVars, loop, setupResult, settingsSent, wsClosedBy, closes, failed,
                 micVars, sndVars, rcvVars, latVars, callVars, ecVars, thrVars, spkVars,
                 is_running, cancel, now>>

\* await self.ws.send(json.dumps(settings)): True when it is written, False when the
\* send raises (the connection is no longer open).
SetupSendsSettings ==
  /\ runPc = "setup_send" /\ ~cancel["run"]
  /\ IF ws = "open"
     THEN settingsSent' = settingsSent + 1 /\ setupResult' = "ok"
     ELSE settingsSent' = settingsSent /\ setupResult' = "failed"
  /\ runPc' = "setup_ret"
  /\ UNCHANGED <<globalVars, loop, wsVars, micVars, sndVars, rcvVars, latVars, callVars,
                 ecVars, thrVars, spkVars, is_running, cancel, now>>

\* ---------------------------------------------------------- VoiceAgent.run
\* Variant: run() goes on whatever setup() returned.
SetupUnchecked == TRUE

\* The test of "if not await self.setup(): return".
SetupOk == setupResult = "ok"

\* if not await self.setup(): return / self.is_running = True
RunAfterSetup ==
  /\ runPc = "setup_ret"
  /\ IF SetupOk
     THEN is_running' = TRUE /\ runPc' = "mic"
     ELSE is_running' = is_running /\ runPc' = "returned"
  /\ UNCHANGED <<globalVars, loop, setupResult, settingsSent, wsVars, micVars, sndVars,
                 rcvVars, latVars, callVars, ecVars, thrVars, spkVars, cancel, now>>

\* A CancelledError raised at an await of setup() leaves setup() and run(): the try of
\* run() has not been entered.
RunCancelledInSetup ==
  /\ runPc \in {"setup", "setup_send"} /\ cancel["run"]
  /\ cancel' = [cancel EXCEPT !["run"] = FALSE]
  /\ runPc' = "returned"
  /\ UNCHANGED <<globalVars, loop, setupResult, settingsSent, wsVars, micVars, sndVars,
                 rcvVars, latVars, callVars, ecVars, thrVars, spkVars, is_running, now>>

\* start_microphone: pyaudio.PyAudio() raises (nothing acquired), or a later call
\* raises before the stream exists (the except terminates self.audio and re-raises),
\* or the stream is opened and started.  On success gather() creates the two tasks.
start_microphone ==
  /\ runPc = "mic"
  /\ \/ /\ audio' = audio /\ stream' = stream /\ released' = released
        /\ runPc' = "finally"
        /\ UNCHANGED <<sendPc, recvPc>>
     \/ /\ audio' = "terminated" /\ stream' = stream
        /\ released' = Release("audio")
        /\ runPc' = "finally"
        /\ UNCHANGED <<sendPc, recvPc>>
     \/ /\ audio' = "live" /\ stream' = "open" /\ released' = released
        /\ runPc' = "gather"
        /\ sendPc' = "start" /\ recvPc' = "start"
  /\ UNCHANGED <<globalVars, loop, setupResult, settingsSent, wsVars, mic_audio_queue,
                 data, capCount, sent, message, function_name, function_call_id, exc, latVars, callVars,
                 ecVars, thrVars, spkVars, is_running, cancel, now>>

\* The run task is cancelled while it awaits gather(): gather cancels its children and
\* completes, cancelled, when both are done.
GatherCancelled ==
  /\ runPc = "gather" /\ cancel["run"] /\ LoopFree
  /\ cancel' = [t \in Tasks |-> IF t = "run" THEN FALSE ELSE cancel[t] \/ Alive(t)]
  /\ runPc' = "gather_c"
  /\ UNCHANGED <<globalVars, loop, setupResult, settingsSent, wsVars, micVars, sndVars,
                 rcvVars, latVars, callVars, ecVars, thrVars, spkVars, is_running, now>>

\* gather() completes when sender() and receiver() have both finished.
GatherReturns ==
  /\ runPc \in {"gather", "gather_c"}
  /\ sendPc = "done" /\ recvPc = "done"
  /\ runPc' = "finally"
  /\ cancel' = [cancel EXCEPT !["run"] = FALSE]
  /\ UNCHANGED <<globalVars, loop, setupResult, settingsSent, wsVars, micVars, sndVars,
                 rcvVars, latVars, callVars, ecVars, thrVars, spkVars, is_running, now>>

\* cleanup(): stop and close the stream if there is one, terminate self.audio if there
\* is one.  self.audio is not reset by start_microphone's except.
cleanup ==
  /\ stream' = IF stream = "open" THEN "closed" ELSE stream
  /\ audio' = IF audio = "none" THEN "none" ELSE "terminated"
  /\ released' = [released EXCEPT
                    !["stream"] = IF stream = "open" THEN @ + 1 ELSE @,
                    !["audio"] = IF audio = "none" THEN @ ELSE @ + 1]

\* The finally of run().
RunFinally ==
  /\ runPc = "finally"
  /\ is_running' = FALSE
  /\ cleanup
  /\ runPc' = IF ws = "none" THEN "returned" ELSE "fin_close"
  /\ UNCHANGED <<globalVars, loop, setupResult, settingsSent, wsVars, sndVars, rcvVars,
                 latVars, callVars, ecVars, thrVars, spkVars, cancel, now>>

\* await self.ws.close() of the finally.
RunFinalClose ==
  /\ runPc = "fin_close" /\ ~cancel["run"]
  /\ ws' = "closed"
  /\ wsClosedBy' = IF ws = "open" THEN "client" ELSE wsClosedBy
  /\ closes' = Append(closes, "run")
  /\ failed' = failed
  /\ runPc' = "returned"
  /\ UNCHANGED <<globalVars, loop, setupResult, settingsSent, micVars, sndVars, rcvVars,
                 latVars, callVars, ecVars, thrVars, spkVars, is_running, cancel, now>>

\* The run task is cancelled inside that close(): the call was made, and whether the
\* connection got closed before the CancelledError is not decided by this code.
RunFinalCloseCancelled ==
  /\ runPc = "fin_close" /\ cancel["run"]
  /\ cancel' = [cancel EXCEPT !["run"] = FALSE]
  /\ \E w \in {ws, "closed"} :
       /\ ws' = w
       /\ wsClosedBy' = IF ws = "open" /\ w = "closed" THEN "client" ELSE wsClosedBy
  /\ closes' = Append(closes, "run")
  /\ failed' = failed
  /\ runPc' = "returned"
  /\ UNCHANGED <<globalVars, loop, setupResult, settingsSent, micVars, sndVars, rcvVars,
                 latVars, callVars, ecVars, thrVars, spkVars, is_running, now>>

\* ------------------------------------------------ audio_callback and sender
\* The PortAudio callback, while the stream is open: hands the frame to the loop if
\* the agent is running and the loop is open, and drops it otherwise or when the
\* handoff does not complete (the queue is at the model's bound).
\* The frame the callback is called with: the next number while frames are told
\* apart, 0 afterwards and in the scripts that do not look at the captured audio.
NextFrame == IF script \in CaptureScripts /\ capCount < MaxCap THEN capCount + 1 ELSE 0

audio_callback ==
  /\ stream = "open"
  /\ IF is_running /\ loop = "set" /\ LoopFree /\ Len(mic_audio_queue) < MaxQueue
     THEN /\ mic_audio_queue' = Append(mic_audio_queue, NextFrame)
          /\ capCount' = IF NextFrame > 0 THEN NextFrame ELSE capCount
     ELSE UNCHANGED <<mic_audio_queue, capCount>>
  /\ UNCHANGED <<globalVars, runVars, wsVars, micVars, sendPc, data, sent, rcvVars, latVars,
                 callVars, ecVars, thrVars, spkVars, is_running, cancel, now>>

\* The first run of sender(): the while test.
SenderStarts ==
  /\ sendPc = "start" /\ ~cancel["sender"] /\ LoopFree
  /\ sendPc' = IF is_running THEN "get" ELSE "done"
  /\ UNCHANGED <<globalVars, runVars, wsVars, micVars, mic_audio_queue, data, capCount,
                 sent, rcvVars, latVars,
                 callVars, ecVars, thrVars, spkVars, is_running, cancel, now>>

\* Variant: a queue that hands out its newest frame.
PoppedNewest(q) == q[Len(q)]

\* asyncio.Queue.get(): the oldest frame.
Popped(q) == Head(q)

\* await self.mic_audio_queue.get() returns a frame.
SenderGets ==
  /\ sendPc = "get" /\ ~cancel["sender"] /\ LoopFree
  /\ mic_audio_queue # <<>>
  /\ data' = Popped(mic_audio_queue)
  /\ mic_audio_queue' = Tail(mic_audio_queue)
  /\ sendPc' = "send"
  /\ UNCHANGED <<globalVars, runVars, wsVars, micVars, capCount, sent, rcvVars, latVars, callVars,
                 ecVars, thrVars, spkVars, is_running, cancel, now>>

\* Variant: a sender whose try is inside the while loop, so a send that raises is
\* logged and the loop goes on.
AfterSendCaughtInLoop == IF is_running THEN "get" ELSE "done"

\* Where the sender is after await self.ws.send(data): written and the while test
\* follows, or the send raises and the except, which is outside the loop, ends the task.
AfterSend == IF ws = "open" /\ is_running THEN "get" ELSE "done"

SenderSends ==
  /\ sendPc = "send" /\ ~cancel["sender"] /\ LoopFree
  /\ sendPc' = AfterSend
  /\ sent' = IF ws = "open" /\ data > 0 THEN Append(sent, data) ELSE sent
  /\ data' = -1
  /\ failed' = IF ws = "open" THEN failed ELSE failed \cup {"sender"}
  /\ UNCHANGED <<globalVars, runVars, ws, wsClosedBy, closes, micVars, mic_audio_queue,
                 capCount, rcvVars, latVars,
                 callVars, ecVars, thrVars, spkVars, is_running, cancel, now>>

\* CancelledError is not an Exception: it ends the task.
SenderCancelled ==
  /\ SenderAlive /\ cancel["sender"] /\ LoopFree
  /\ cancel' = [cancel EXCEPT !["sender"] = FALSE]
  /\ sendPc' = "done"
  /\ data' = -1
  /\ UNCHANGED <<globalVars, runVars, wsVars, micVars, mic_audio_queue, capCount, sent,
                 rcvVars, latVars,
                 callVars, ecVars, thrVars, spkVars, is_running, now>>

\* ------------------------------------------------------------ the peer
\* What the remote agent may send next: any control message, a FunctionCallRequest
\* with a fresh call id, or the next binary frame.
Requests(names) ==
  IF reqCount < MaxReq THEN {FunctionCallRequest(n, reqCount + 1) : n \in names} ELSE {}

Inbound ==
  CASE script = "control" ->
         {TextMsg(t) : t \in {"Welcome", "CloseConnection", "AgentStartedSpeaking",
                              "AgentAudioDone", "Unrecognized"}}
    [] script = "calls" ->
         Requests(FunctionNames)
         \cup {TextMsg("AgentStartedSpeaking"), TextMsg("AgentAudioDone"),
               ConversationText("assistant", "farewell")}
    [] script = "audio" ->
         Requests({"end_call"})
         \cup {TextMsg("UserStartedSpeaking"), TextMsg("AgentStartedSpeaking"),
               TextMsg("AgentAudioDone")}
         \cup (IF binCount < MaxBin THEN {Bytes(binCount + 1)} ELSE {})
    [] script = "timing" ->
         Requests({"plain"})
         \cup {TextMsg("FunctionCalling"), ConversationText("user", "other"),
               ConversationText("assistant", "other")}

\* Reading message m off the transport.
Consume(m) ==
  /\ reqCount' = IF m.type = "FunctionCallRequest" THEN reqCount + 1 ELSE reqCount
  /\ binCount' = IF m.type = "bytes" THEN binCount + 1 ELSE binCount

\* The remote end closes or drops the connection.
PeerCloses ==
  /\ ws = "open"
  /\ ws' = "closed"
  /\ wsClosedBy' = "peer"
  /\ UNCHANGED <<globalVars, runVars, closes, failed, micVars, sndVars, rcvVars, latVars,
                 callVars, ecVars, thrVars, spkVars, is_running, cancel, now>>

\* time.time() advances (the receiver is its only reader).
Tick ==
  /\ script = "timing" /\ ReceiverAlive
  /\ now < MaxTime
  /\ now' = now + 1
  /\ UNCHANGED <<globalVars, runVars, wsVars, micVars, sndVars, rcvVars, latVars,
                 callVars, ecVars, thrVars, spkVars, is_running, cancel>>

\* ------------------------------------------------------ Speaker and _play
\* Variant: a play() that puts the frame at the head of the queue.
PlayFirst(q, f) == <<f>> \o q

\* Speaker.play: the frame is put on the queue.
Play(q, f) == Append(q, f)

\* Speaker.__enter__ as called by "with self.speaker": the output stream, the queue,
\* the stop event and the started thread; or PyAudio()/open raises and the receiver's
\* outer except ends the task.
SpeakerEnter ==
  \/ /\ spkStream' = "open" /\ thrPc' = "get" /\ stopFlag' = FALSE /\ pq' = <<>>
     /\ recvPc' = "recv"
  \/ /\ UNCHANGED <<spkStream, thrPc, stopFlag, pq>>
     /\ recvPc' = "done"

\* _play between two writes: "while not stop.is_set()" was passed with the event
\* clear and the thread is in sync_q.get(True, 0.05); a timeout with the event still
\* clear leads back to the same get.  A frame in the queue is popped.
PlayGet ==
  /\ thrPc = "get" /\ pq # <<>>
  /\ held' = Head(pq) /\ pq' = Tail(pq)
  /\ thrPc' = "write"
  /\ UNCHANGED <<globalVars, runVars, wsVars, micVars, sndVars, rcvVars, latVars,
                 callVars, ecVars, played, spkStream, stopFlag, binCount, bargeSnap,
                 playedAtStop, discarded, is_running, cancel, now>>

\* The while test finds the event set (directly after a write, or after a get that
\* timed out): _play returns.
PlayStops ==
  /\ thrPc = "get" /\ stopFlag
  /\ thrPc' = "exited"
  /\ UNCHANGED <<globalVars, runVars, wsVars, micVars, sndVars, rcvVars, latVars,
                 callVars, ecVars, held, played, spkVars, is_running, cancel, now>>

\* stream.write(data)
PlayWrite ==
  /\ thrPc = "write"
  /\ played' = Append(played, held)
  /\ held' = 0
  /\ thrPc' = "get"
  /\ UNCHANGED <<globalVars, runVars, wsVars, micVars, sndVars, rcvVars, latVars,
                 callVars, ecVars, spkVars, is_running, cancel, now>>

\* Speaker.stop(), the test of its while loop: empty() true returns to the receiver.
StopTest ==
  /\ recvPc = "stop_check"
  /\ IF pq = <<>>
     THEN recvPc' = "recv" /\ playedAtStop' = Len(played)
     ELSE recvPc' = "stop_get" /\ playedAtStop' = playedAtStop
  /\ UNCHANGED <<globalVars, runVars, wsVars, micVars, sndVars, message, function_name,
                 function_call_id, exc, latVars, callVars, ecVars, thrVars, spkStream,
                 stopFlag, pq, binCount, bargeSnap, discarded, is_running, cancel, now>>

\* Speaker.stop(), get_nowait(): a frame is discarded, or the queue was emptied by
\* the playback thread meanwhile and get_nowait() raises. The except clause names
\* janus.QueueEmpty: where the installed janus has that name for the exception
\* raised, the loop breaks and stop() returns; where it has not, evaluating the
\* clause raises AttributeError, which leaves stop(), the with block and the
\* receiver's loop (outer except). Which janus is installed is not fixed by
\* the source, so both outcomes are possible.
StopDiscard ==
  /\ recvPc = "stop_get"
  /\ IF pq # <<>>
     THEN /\ pq' = Tail(pq) /\ discarded' = discarded \cup {Head(pq)}
          /\ recvPc' = "stop_check" /\ playedAtStop' = playedAtStop
     ELSE /\ pq' = pq /\ discarded' = discarded
          /\ \/ recvPc' = "recv" /\ playedAtStop' = Len(played)
             \/ recvPc' = "exit" /\ playedAtStop' = playedAtStop
  /\ UNCHANGED <<globalVars, runVars, wsVars, micVars, sndVars, message, function_name,
                 function_call_id, exc, latVars, callVars, ecVars, thrVars, spkStream,
                 stopFlag, binCount, bargeSnap, is_running, cancel, now>>

\* Speaker.__exit__: self._stop.set(), then self._thread.join() blocks the loop.
SpeakerExitSignals ==
  /\ recvPc = "exit"
  /\ stopFlag' = TRUE
  /\ recvPc' = "join"
  /\ UNCHANGED <<globalVars, runVars, wsVars, micVars, sndVars, message, function_name,
                 function_call_id, exc, latVars, callVars, ecVars, thrVars, spkStream,
                 pq, binCount, bargeSnap, playedAtStop, discarded, is_running, cancel, now>>

\* join() returns once _play has left its loop; the stream is closed and the fields
\* are reset.  The receiver is over.
SpeakerExitJoins ==
  /\ recvPc = "join" /\ thrPc = "exited"
  /\ spkStream' = "closed"
  /\ pq' = <<>>
  /\ released' = [released EXCEPT !["spkThread"] = @ + 1, !["spkStream"] = @ + 1]
  /\ recvPc' = "done"
  /\ UNCHANGED <<globalVars, runVars, wsVars, audio, stream, sndVars, message,
                 function_name, function_call_id, exc, latVars, callVars, ecVars,
                 thrVars, stopFlag, binCount, bargeSnap, playedAtStop, discarded, is_running,
                 cancel, now>>

\* ------------------------------------------------- VoiceAgent.receiver
\* Awaits at which a pending cancellation of the receiver is raised.
RecvAwaits == {"start", "recv", "call", "send_resp", "af_resp", "af_inject", "ec_resp",
               "ec_inject", "ec_wait1", "ec_wait2", "ec_sleep", "ec_close", "cc_close",
               "send_err"}

\* The first run of receiver(): Speaker(), the three locals, "with self.speaker".
ReceiverStarts ==
  /\ recvPc = "start" /\ ~cancel["receiver"]
  /\ SpeakerEnter
  /\ last_user_message' = NoTime /\ last_function_response_time' = NoTime
  /\ in_function_chain' = FALSE
  /\ UNCHANGED <<globalVars, runVars, wsVars, micVars, sndVars, message, function_name,
                 function_call_id, exc, latency, callVars, ecVars, held, played,
                 binCount, bargeSnap, playedAtStop, discarded, is_running, cancel, now>>

\* CancelledError at an await: it passes every "except Exception"; inside the with
\* block Speaker.__exit__ runs.
ReceiverCancelled ==
  /\ recvPc \in RecvAwaits /\ cancel["receiver"]
  /\ cancel' = [cancel EXCEPT !["receiver"] = FALSE]
  /\ recvPc' = IF recvPc = "start" THEN "done" ELSE "exit"
  /\ message' = NoMsg /\ function_name' = "" /\ function_call_id' = 0 /\ exc' = NoExc
  /\ UNCHANGED <<globalVars, runVars, wsVars, micVars, sndVars, latVars, callVars,
                 ecVars, thrVars, spkVars, is_running, now>>

\* async for message in self.ws: the next message.
ReceiverNext ==
  /\ recvPc = "recv" /\ ~cancel["receiver"] /\ ws = "open"
  /\ \E m \in Inbound :
       /\ message' = m
       /\ Consume(m)
  /\ recvPc' = "dispatch"
  /\ UNCHANGED <<globalVars, runVars, wsVars, micVars, sndVars, function_name,
                 function_call_id, exc, latVars, responses, injected, ecVars, thrVars,
                 spkStream, stopFlag, pq, bargeSnap, playedAtStop, discarded, is_running, cancel,
                 now>>

\* Variant: reading from a closed connection waits forever.
ReceiverWaitsOnClosed ==
  /\ recvPc = "recv" /\ ~cancel["receiver"] /\ ws # "open"
  /\ UNCHANGED vars

\* async for: the connection is closed, the iteration ends (or raises into the outer
\* except); either way the with block is left.
ReceiverEnds ==
  /\ recvPc = "recv" /\ ~cancel["receiver"] /\ ws # "open"
  /\ recvPc' = "exit"
  /\ failed' = failed \cup {"receiver"}
  /\ UNCHANGED <<globalVars, runVars, ws, wsClosedBy, closes, micVars, sndVars, message, function_name,
                 function_call_id, exc, latVars, callVars, ecVars, thrVars, spkVars,
                 is_running, cancel, now>>

\* UserStartedSpeaking: self.speaker.stop() is entered.
OnUserStartedSpeaking ==
  /\ recvPc = "dispatch" /\ message.type = "UserStartedSpeaking"
  /\ bargeSnap' = {pq[i] : i \in 1..Len(pq)}
  /\ playedAtStop' = -1
  /\ recvPc' = "stop_check"
  /\ message' = NoMsg
  /\ UNCHANGED <<globalVars, runVars, wsVars, micVars, sndVars, function_name,
                 function_call_id, exc, latVars, callVars, ecVars, thrVars, spkStream,
                 stopFlag, pq, binCount, discarded, is_running, cancel, now>>

\* ConversationText: role "user" records the time and resets the chain flag, role
\* "assistant" resets the chain flag.
OnConversationText ==
  /\ recvPc = "dispatch" /\ message.type = "ConversationText"
  /\ last_user_message' = IF message.role = "user" THEN now ELSE last_user_message
  /\ in_function_chain' = IF message.role \in {"user", "assistant"}
                          THEN FALSE ELSE in_function_chain
  /\ recvPc' = "recv"
  /\ message' = NoMsg
  /\ UNCHANGED <<globalVars, runVars, wsVars, micVars, sndVars, function_name,
                 function_call_id, exc, last_function_response_time, latency, callVars,
                 ecVars, thrVars, spkVars, is_running, cancel, now>>

\* Variant: the latency is always measured from the last user message.
FunctionCallingEffectNoChain ==
  IF last_user_message # NoTime
  THEN /\ latency' = <<"initial", now - last_user_message>>
       /\ in_function_chain' = TRUE
  ELSE UNCHANGED <<latency, in_function_chain>>

\* FunctionCalling: the decision latency; the elif branch alone sets the chain flag.
FunctionCallingEffect ==
  IF in_function_chain /\ last_function_response_time # NoTime
  THEN /\ latency' = <<"chain", now - last_function_response_time>>
       /\ in_function_chain' = in_function_chain
  ELSE IF last_user_message # NoTime
  THEN /\ latency' = <<"initial", now - last_user_message>>
       /\ in_function_chain' = TRUE
  ELSE UNCHANGED <<latency, in_function_chain>>

OnFunctionCalling ==
  /\ recvPc = "dispatch" /\ message.type = "FunctionCalling"
  /\ FunctionCallingEffect
  /\ recvPc' = "recv"
  /\ message' = NoMsg
  /\ UNCHANGED <<globalVars, runVars, wsVars, micVars, sndVars, function_name,
                 function_call_id, exc, last_user_message, last_function_response_time,
                 callVars, ecVars, thrVars, spkVars, is_running, cancel, now>>

\* Variant: the name is not looked up before the call.
LookupUnchecked == recvPc' = "call" /\ exc' = exc

\* FunctionCallRequest up to its first await: the lookup in FUNCTION_MAP raises
\* ValueError for an unknown name, otherwise the handler is awaited.
Lookup ==
  IF message.name \in FUNCTION_MAP
  THEN recvPc' = "call" /\ exc' = exc
  ELSE recvPc' = "send_err" /\ exc' = NotFound(message.name)

OnFunctionCallRequest ==
  /\ recvPc = "dispatch" /\ message.type = "FunctionCallRequest"
  /\ function_name' = message.name
  /\ function_call_id' = message.id
  /\ Lookup
  /\ message' = NoMsg
  /\ UNCHANGED <<globalVars, runVars, wsVars, micVars, sndVars, latVars, callVars,
                 ecVars, thrVars, spkVars, is_running, cancel, now>>

\* Welcome, and the tags without a branch: nothing but the log.
OnWelcome ==
  /\ recvPc = "dispatch" /\ message.type = "Welcome"
  /\ recvPc' = "recv"
  /\ message' = NoMsg
  /\ UNCHANGED <<globalVars, runVars, wsVars, micVars, sndVars, function_name,
                 function_call_id, exc, latVars, callVars, ecVars, thrVars, spkVars,
                 is_running, cancel, now>>

\* Variant: a tag without a branch raises and ends the receiver.
OnOtherTagFatal ==
  /\ recvPc = "dispatch" /\ message.type \in IgnoredTags
  /\ unknownSeen' = (unknownSeen \/ message.type = "Unrecognized")
  /\ recvPc' = "exit"
  /\ message' = NoMsg
  /\ UNCHANGED <<script, voice_agent, stopCalls, stopAt, evVars, runVars, wsVars, micVars, sndVars,
                 function_name, function_call_id, exc, latVars, callVars, ecVars,
                 thrVars, spkVars, is_running, cancel, now>>

OnOtherTag ==
  /\ recvPc = "dispatch" /\ message.type \in IgnoredTags
  /\ unknownSeen' = (unknownSeen \/ message.type = "Unrecognized")
  /\ recvPc' = "recv"
  /\ message' = NoMsg
  /\ UNCHANGED <<script, voice_agent, stopCalls, stopAt, evVars, runVars, wsVars, micVars, sndVars, function_name,
                 function_call_id, exc, latVars, callVars, ecVars, thrVars, spkVars,
                 is_running, cancel, now>>

\* CloseConnection: await self.ws.close() is started.
OnCloseConnection ==
  /\ recvPc = "dispatch" /\ message.type = "CloseConnection"
  /\ recvPc' = "cc_close"
  /\ message' = NoMsg
  /\ UNCHANGED <<globalVars, runVars, wsVars, micVars, sndVars, function_name,
                 function_call_id, exc, latVars, callVars, ecVars, thrVars, spkVars,
                 is_running, cancel, now>>

\* ... and completes; break leaves the loop and the with block.
CloseConnectionCloses ==
  /\ recvPc = "cc_close" /\ ~cancel["receiver"]
  /\ ws' = "closed"
  /\ wsClosedBy' = IF ws = "open" THEN "client" ELSE wsClosedBy
  /\ closes' = Append(closes, "close_connection")
  /\ failed' = failed
  /\ recvPc' = "exit"
  /\ UNCHANGED <<globalVars, runVars, micVars, sndVars, message, function_name,
                 function_call_id, exc, latVars, callVars, ecVars, thrVars, spkVars,
                 is_running, cancel, now>>

\* A binary message: await self.speaker.play(message) puts it on the queue.
OnBytes ==
  /\ recvPc = "dispatch" /\ message.type = "bytes"
  /\ pq' = Play(pq, message.id)
  /\ recvPc' = "recv"
  /\ message' = NoMsg
  /\ UNCHANGED <<globalVars, runVars, wsVars, micVars, sndVars, function_name,
                 function_call_id, exc, latVars, callVars, ecVars, thrVars, spkStream,
                 stopFlag, binCount, bargeSnap, playedAtStop, discarded, is_running, cancel, now>>

\* --------------------------------------- the function call dispatch block
SendResponse(output) ==
  responses' = [responses EXCEPT ![function_call_id] = Append(@, output)]

\* The dispatch of the current request is over: its locals are dead.
ForgetCall == function_name' = "" /\ function_call_id' = 0 /\ exc' = NoExc

\* await func(...) returns its result.
HandlerReturns ==
  /\ recvPc = "call" /\ ~cancel["receiver"]
  /\ recvPc' = CASE function_name = "agent_filler" -> "af_resp"
                 [] function_name = "end_call" -> "ec_resp"
                 [] OTHER -> "send_resp"
  /\ UNCHANGED <<globalVars, runVars, wsVars, micVars, sndVars, message, function_name,
                 function_call_id, exc, latVars, callVars, ecVars, thrVars, spkVars,
                 is_running, cancel, now>>

\* await func(...) raises: the except of the dispatch block takes over.
HandlerRaises ==
  /\ recvPc = "call" /\ ~cancel["receiver"]
  /\ exc' = HandlerError
  /\ recvPc' = "send_err"
  /\ UNCHANGED <<globalVars, runVars, wsVars, micVars, sndVars, message, function_name,
                 function_call_id, latVars, callVars, ecVars, thrVars, spkVars,
                 is_running, cancel, now>>

\* An ordinary handler: the response is sent and the time recorded; a send that raises
\* is caught by the except of the dispatch block.
SendsResponse ==
  /\ recvPc = "send_resp" /\ ~cancel["receiver"]
  /\ IF ws = "open"
     THEN /\ SendResponse(ResultOutput)
          /\ last_function_response_time' = now
          /\ recvPc' = "recv"
          /\ ForgetCall
     ELSE /\ exc' = ConnectionClosed
          /\ recvPc' = "send_err"
          /\ UNCHANGED <<responses, last_function_response_time, function_name,
                         function_call_id>>
  /\ UNCHANGED <<globalVars, runVars, wsVars, micVars, sndVars, message,
                 last_user_message, in_function_chain, latency, reqCount, injected,
                 ecVars, thrVars, spkVars, is_running, cancel, now>>

\* Variant: agent_filler injects its message before anything else.
FillerInjectsFirst ==
  /\ recvPc = "af_resp" /\ ~cancel["receiver"]
  /\ IF ws = "open"
     THEN /\ injected' = [injected EXCEPT ![function_call_id] = Append(@, "filler")]
          /\ recvPc' = "af_inject"
          /\ exc' = exc
     ELSE /\ exc' = ConnectionClosed
          /\ recvPc' = "send_err"
          /\ injected' = injected
  /\ UNCHANGED <<globalVars, runVars, wsVars, micVars, sndVars, message, function_name,
                 function_call_id, latVars, reqCount, responses, ecVars, thrVars,
                 spkVars, is_running, cancel, now>>

\* agent_filler: the response is sent, the time recorded, inject_agent_message begun.
FillerResponds ==
  /\ recvPc = "af_resp" /\ ~cancel["receiver"]
  /\ IF ws = "open"
     THEN /\ SendResponse(ResultOutput)
          /\ last_function_response_time' = now
          /\ recvPc' = "af_inject"
          /\ exc' = exc
     ELSE /\ exc' = ConnectionClosed
          /\ recvPc' = "send_err"
          /\ UNCHANGED <<responses, last_function_response_time>>
  /\ UNCHANGED <<globalVars, runVars, wsVars, micVars, sndVars, message, function_name,
                 function_call_id, last_user_message, in_function_chain, latency,
                 reqCount, injected, ecVars, thrVars, spkVars, is_running, cancel, now>>

\* agent_filler: the InjectAgentMessage is sent, then "continue".
FillerInjects ==
  /\ recvPc = "af_inject" /\ ~cancel["receiver"]
  /\ IF ws = "open"
     THEN /\ injected' = [injected EXCEPT ![function_call_id] = Append(@, "filler")]
          /\ recvPc' = "recv"
          /\ ForgetCall
     ELSE /\ exc' = ConnectionClosed
          /\ recvPc' = "send_err"
          /\ UNCHANGED <<injected, function_name, function_call_id>>
  /\ UNCHANGED <<globalVars, runVars, wsVars, micVars, sndVars, message, latVars,
                 reqCount, responses, ecVars, thrVars, spkVars, is_running, cancel, now>>

\* end_call: the response is sent, the time recorded, wait_for_farewell_completion
\* entered (its inject_agent_message begun).
EndCallResponds ==
  /\ recvPc = "ec_resp" /\ ~cancel["receiver"]
  /\ IF ws = "open"
     THEN /\ SendResponse(ResultOutput)
          /\ last_function_response_time' = now
          /\ recvPc' = "ec_inject"
          /\ exc' = exc
     ELSE /\ exc' = ConnectionClosed
          /\ recvPc' = "send_err"
          /\ UNCHANGED <<responses, last_function_response_time>>
  /\ UNCHANGED <<globalVars, runVars, wsVars, micVars, sndVars, message, function_name,
                 function_call_id, last_user_message, in_function_chain, latency,
                 reqCount, injected, ecVars, thrVars, spkVars, is_running, cancel, now>>

\* wait_for_farewell_completion: the farewell is injected, speaking_started = False.
FarewellInjects ==
  /\ recvPc = "ec_inject" /\ ~cancel["receiver"]
  /\ IF ws = "open"
     THEN /\ injected' = [injected EXCEPT ![function_call_id] = Append(@, "farewell")]
          /\ speaking_started' = FALSE /\ audio_done' = FALSE
          /\ binAtFarewell' = binCount
          /\ recvPc' = "ec_wait1"
          /\ exc' = exc
     ELSE /\ exc' = ConnectionClosed
          /\ recvPc' = "send_err"
          /\ UNCHANGED <<injected, speaking_started, audio_done, binAtFarewell>>
  /\ UNCHANGED <<globalVars, runVars, wsVars, micVars, sndVars, message, function_name,
                 function_call_id, latVars, reqCount, responses, tailElapsed,
                 ecCompleted, thrVars, spkVars, is_running, cancel, now>>

\* The first loop: ws.recv() returns m.  Bytes are played; AgentStartedSpeaking or the
\* assistant's ConversationText with the farewell text ends the loop; every other
\* message, a FunctionCallRequest included, is read and dropped.
StartsSpeaking(m) ==
  \/ m.type = "AgentStartedSpeaking"
  \/ m.type = "ConversationText" /\ m.role = "assistant" /\ m.content = "farewell"

AwaitSpeakingStart ==
  /\ recvPc = "ec_wait1" /\ ~cancel["receiver"] /\ ws = "open"
  /\ \E m \in Inbound :
       /\ Consume(m)
       /\ pq' = IF m.type = "bytes" THEN Play(pq, m.id) ELSE pq
       /\ speaking_started' = StartsSpeaking(m)
       /\ recvPc' = IF StartsSpeaking(m) THEN "ec_wait2" ELSE "ec_wait1"
  /\ UNCHANGED <<globalVars, runVars, wsVars, micVars, sndVars, message, function_name,
                 function_call_id, exc, latVars, responses, injected, audio_done,
                 tailElapsed, ecCompleted, binAtFarewell, thrVars, spkStream, stopFlag, bargeSnap,
                 playedAtStop, discarded, is_running, cancel, now>>

\* Variant: the second loop also ends on a repeated AgentStartedSpeaking.
FarewellOverEarly(m) == m.type \in {"AgentAudioDone", "AgentStartedSpeaking"}

\* The test that ends the second loop.
FarewellOver(m) == m.type = "AgentAudioDone"

\* The second loop: until AgentAudioDone; then asyncio.sleep(3.5) is begun.
AwaitAudioDone ==
  /\ recvPc = "ec_wait2" /\ ~cancel["receiver"] /\ ws = "open"
  /\ \E m \in Inbound :
       /\ Consume(m)
       /\ pq' = IF m.type = "bytes" THEN Play(pq, m.id) ELSE pq
       /\ audio_done' = (m.type = "AgentAudioDone")
       /\ recvPc' = IF FarewellOver(m) THEN "ec_sleep" ELSE "ec_wait2"
  /\ UNCHANGED <<globalVars, runVars, wsVars, micVars, sndVars, message, function_name,
                 function_call_id, exc, latVars, responses, injected, speaking_started,
                 tailElapsed, ecCompleted, binAtFarewell, thrVars, spkStream, stopFlag, bargeSnap,
                 playedAtStop, discarded, is_running, cancel, now>>

\* ws.recv() raises ConnectionClosed in either loop: the exception leaves
\* wait_for_farewell_completion and reaches the except of the dispatch block.
FarewellWaitFails ==
  /\ recvPc \in {"ec_wait1", "ec_wait2"} /\ ~cancel["receiver"] /\ ws # "open"
  /\ exc' = ConnectionClosed
  /\ recvPc' = "send_err"
  /\ UNCHANGED <<globalVars, runVars, wsVars, micVars, sndVars, message, function_name,
                 function_call_id, latVars, callVars, ecVars, thrVars, spkVars,
                 is_running, cancel, now>>

\* await asyncio.sleep(3.5) returns; close_websocket_with_timeout is begun.
TailDelay ==
  /\ recvPc = "ec_sleep" /\ ~cancel["receiver"]
  /\ tailElapsed' = TRUE
  /\ recvPc' = "ec_close"
  /\ UNCHANGED <<globalVars, runVars, wsVars, micVars, sndVars, message, function_name,
                 function_call_id, exc, latVars, callVars, speaking_started, audio_done,
                 ecCompleted, binAtFarewell, thrVars, spkVars, is_running, cancel, now>>

\* close_websocket_with_timeout: the close completes, or wait_for times out after 5 s
\* with the connection left closing (logged); then is_running = False and break.
EndCallCloses ==
  /\ recvPc = "ec_close" /\ ~cancel["receiver"]
  /\ \E w \in (IF ws = "open" THEN {"closed", "closing"} ELSE {"closed"}) :
       /\ ws' = w
       /\ ecCompleted' = (w = "closed")
  /\ wsClosedBy' = IF ws = "open" THEN "client" ELSE wsClosedBy
  /\ closes' = Append(closes, "end_call")
  /\ failed' = failed
  /\ is_running' = FALSE
  /\ recvPc' = "exit"
  /\ ForgetCall
  /\ UNCHANGED <<globalVars, runVars, micVars, sndVars, message, latVars, callVars,
                 speaking_started, audio_done, tailElapsed, binAtFarewell, thrVars,
                 spkVars, cancel, now>>

\* except Exception as e: the error response is sent and the loop goes on; if that
\* send raises too, the exception reaches the receiver's outer except.
SendsError ==
  /\ recvPc = "send_err" /\ ~cancel["receiver"]
  /\ IF ws = "open"
     THEN /\ SendResponse(ErrorOutput(exc))
          /\ recvPc' = "recv"
     ELSE /\ responses' = responses
          /\ recvPc' = "exit"
  /\ failed' = IF ws = "open" THEN failed ELSE failed \cup {"receiver"}
  /\ ForgetCall
  /\ UNCHANGED <<globalVars, runVars, ws, wsClosedBy, closes, micVars, sndVars, message, latVars,
                 reqCount, injected, ecVars, thrVars, spkVars, is_running, cancel, now>>

\* ----------------------------------------------------------- specification
Lifecycle ==
  \/ BgSetLoop \/ BgCreateCoroutine \/ BgRunUntilComplete \/ BgLoopClose
  \/ SetupFails \/ SetupConnects \/ SetupSendsSettings \/ RunAfterSetup
  \/ RunCancelledInSetup \/ start_microphone \/ GatherCancelled \/ GatherReturns
  \/ RunFinally \/ RunFinalClose \/ RunFinalCloseCancelled

Sender == SenderStarts \/ SenderGets \/ SenderSends \/ SenderCancelled

Playback == PlayGet \/ PlayStops \/ PlayWrite

\* The receiver's steps that wait for nothing but the program itself.
ReceiverInternal ==
  \/ ReceiverStarts \/ ReceiverCancelled \/ ReceiverEnds
  \/ OnUserStartedSpeaking \/ StopTest \/ StopDiscard
  \/ OnConversationText \/ OnFunctionCalling \/ OnFunctionCallRequest
  \/ OnWelcome \/ OnOtherTag \/ OnCloseConnection \/ CloseConnectionCloses \/ OnBytes
  \/ HandlerReturns \/ HandlerRaises \/ SendsResponse \/ FillerResponds \/ FillerInjects
  \/ EndCallResponds \/ FarewellInjects \/ FarewellWaitFails \/ TailDelay
  \/ EndCallCloses \/ SendsError \/ SpeakerExitSignals \/ SpeakerExitJoins

\* The receiver's steps that wait for the peer to send a message.
ReceiverRead == ReceiverNext \/ AwaitSpeakingStart \/ AwaitAudioDone

Environment == handle_start_voice_agent \/ handle_stop_voice_agent \/ PeerCloses \/ Tick

Next ==
  \/ Environment
  \/ Lifecycle
  \/ Sender
  \/ audio_callback
  \/ ReceiverInternal
  \/ ReceiverRead
  \/ Playback

Spec == Init /\ [][Next]_vars

\* The event loop runs every task that is ready, the PortAudio thread keeps calling
\* the callback while the stream is open and the playback thread keeps running; the
\* peer, the clock and the socket.io events are under no obligation.
FairSpec ==
  /\ Spec
  /\ WF_vars(Lifecycle)
  /\ WF_vars(Sender)
  /\ WF_vars(audio_callback)
  /\ WF_vars(ReceiverInternal)
  /\ WF_vars(Playback)

\* ------------------------------------------------- start and stop events
\* The socket.io handlers and the background tasks over several VoiceAgent
\* instances.  run() is followed by its phases only: its steps are those of Spec.
\* Instances and background tasks are numbered in the order of their creation:
\* the start event that creates instance n starts background task n.
BgTasks == 1..MaxStart

\* The run() task of background task t exists in its loop and has not finished.
TaskExists(t) == bgPc[t] \in {"setup", "setup_ok", "mic", "gather", "finally"}

\* handle_start_voice_agent: with the global None, a new instance is bound to the
\* global and a background task is started; otherwise nothing is done.
start_voice_agent ==
  /\ agentRef = 0 /\ created < MaxStart
  /\ created' = created + 1
  /\ agentRef' = created + 1
  /\ bgPc' = [bgPc EXCEPT ![created + 1] = "spawned"]
  /\ UNCHANGED <<bgRuns, agLoop, agRunning, agWs, bgCancel, sessionVars>>

\* handle_stop_voice_agent: with the global set, the instance's flag is cleared,
\* the tasks of the instance's loop are cancelled if it has a loop that is not
\* closed, and the global is reset; otherwise nothing is done.
stop_voice_agent ==
  /\ agentRef # 0
  /\ agRunning' = [agRunning EXCEPT ![agentRef] = FALSE]
  /\ bgCancel' = IF agLoop[agentRef] # 0 /\ bgPc[agLoop[agentRef]] # "done"
                 THEN [bgCancel EXCEPT ![agLoop[agentRef]] = @ \/ TaskExists(agLoop[agentRef])]
                 ELSE bgCancel
  /\ agentRef' = 0
  /\ UNCHANGED <<created, bgPc, bgRuns, agLoop, agWs, sessionVars>>

\* voice_agent.set_loop(loop): the loop goes to the instance the global names at
\* this moment; with the global None the AttributeError ends the thread.
TaskSetLoop(t) ==
  /\ bgPc[t] = "spawned"
  /\ IF agentRef # 0
     THEN /\ agLoop' = [agLoop EXCEPT ![agentRef] = t]
          /\ bgPc' = [bgPc EXCEPT ![t] = "loop_set"]
     ELSE /\ agLoop' = agLoop
          /\ bgPc' = [bgPc EXCEPT ![t] = "aborted"]
  /\ UNCHANGED <<agentRef, created, bgRuns, agRunning, agWs, bgCancel, sessionVars>>

\* voice_agent.run() is evaluated: the coroutine is the run() of the instance the
\* global names at this moment; with the global None the AttributeError is logged
\* and the finally closes the loop.
TaskCreateCoroutine(t) ==
  /\ bgPc[t] = "loop_set"
  /\ IF agentRef # 0
     THEN /\ bgRuns' = [bgRuns EXCEPT ![t] = agentRef]
          /\ bgPc' = [bgPc EXCEPT ![t] = "coro"]
     ELSE /\ bgRuns' = bgRuns
          /\ bgPc' = [bgPc EXCEPT ![t] = "done"]
  /\ UNCHANGED <<agentRef, created, agLoop, agRunning, agWs, bgCancel, sessionVars>>

\* loop.run_until_complete wraps the coroutine in a task.
TaskRunUntilComplete(t) ==
  /\ bgPc[t] = "coro"
  /\ bgPc' = [bgPc EXCEPT ![t] = "setup"]
  /\ UNCHANGED <<agentRef, created, bgRuns, agLoop, agRunning, agWs, bgCancel, sessionVars>>

\* setup(): a CancelledError at one of its awaits leaves run(); or it returns False
\* and run() returns; or it connects, sends the settings and returns True.
TaskSetup(t) ==
  /\ bgPc[t] = "setup"
  /\ IF bgCancel[t]
     THEN /\ bgCancel' = [bgCancel EXCEPT ![t] = FALSE]
          /\ bgPc' = [bgPc EXCEPT ![t] = "returned"]
          /\ agWs' = agWs
     ELSE /\ bgCancel' = bgCancel
          /\ \/ bgPc' = [bgPc EXCEPT ![t] = "returned"] /\ agWs' = agWs
             \/ /\ bgPc' = [bgPc EXCEPT ![t] = "setup_ok"]
                /\ agWs' = [agWs EXCEPT ![bgRuns[t]] = "open"]
  /\ UNCHANGED <<agentRef, created, bgRuns, agLoop, agRunning, sessionVars>>

\* self.is_running = True
TaskSetsRunning(t) ==
  /\ bgPc[t] = "setup_ok"
  /\ agRunning' = [agRunning EXCEPT ![bgRuns[t]] = TRUE]
  /\ bgPc' = [bgPc EXCEPT ![t] = "mic"]
  /\ UNCHANGED <<agentRef, created, bgRuns, agLoop, agWs, bgCancel, sessionVars>>

\* start_microphone() raises, or the stream is started and gather() is awaited.
TaskStartMicrophone(t) ==
  /\ bgPc[t] = "mic"
  /\ \E p \in {"finally", "gather"} : bgPc' = [bgPc EXCEPT ![t] = p]
  /\ UNCHANGED <<agentRef, created, bgRuns, agLoop, agRunning, agWs, bgCancel, sessionVars>>

\* gather() ends: cancelled, or sender and receiver have ended by themselves.
TaskGatherEnds(t) ==
  /\ bgPc[t] = "gather"
  /\ bgCancel' = [bgCancel EXCEPT ![t] = FALSE]
  /\ bgPc' = [bgPc EXCEPT ![t] = "finally"]
  /\ UNCHANGED <<agentRef, created, bgRuns, agLoop, agRunning, agWs, sessionVars>>

\* The finally of run(): the flag is cleared, the microphone released and the
\* instance's transport closed.
TaskFinally(t) ==
  /\ bgPc[t] = "finally"
  /\ agRunning' = [agRunning EXCEPT ![bgRuns[t]] = FALSE]
  /\ agWs' = [agWs EXCEPT ![bgRuns[t]] = IF @ = "none" THEN @ ELSE "closed"]
  /\ bgCancel' = [bgCancel EXCEPT ![t] = FALSE]
  /\ bgPc' = [bgPc EXCEPT ![t] = "returned"]
  /\ UNCHANGED <<agentRef, created, bgRuns, agLoop, sessionVars>>

\* The finally of run_async_voice_agent closes the loop.
TaskLoopClose(t) ==
  /\ bgPc[t] = "returned"
  /\ bgPc' = [bgPc EXCEPT ![t] = "done"]
  /\ UNCHANGED <<agentRef, created, bgRuns, agLoop, agRunning, agWs, bgCancel, sessionVars>>

EventsNext ==
  \/ start_voice_agent
  \/ stop_voice_agent
  \/ \E t \in BgTasks : TaskSetLoop(t)
  \/ \E t \in BgTasks : TaskCreateCoroutine(t)
  \/ \E t \in BgTasks : TaskRunUntilComplete(t)
  \/ \E t \in BgTasks : TaskSetup(t)
  \/ \E t \in BgTasks : TaskSetsRunning(t)
  \/ \E t \in BgTasks : TaskStartMicrophone(t)
  \/ \E t \in BgTasks : TaskGatherEnds(t)
  \/ \E t \in BgTasks : TaskFinally(t)
  \/ \E t \in BgTasks : TaskLoopClose(t)

EventsInit == Init /\ script = "control"

EventsSpec == EventsInit /\ [][EventsNext]_vars

\* ------------------------------------------------------------------ claims
\* C1: every FunctionCallRequest the session has consumed from the transport gets
\* exactly one FunctionCallResponse with its call id: never two, and none only while
\* the request is still being dispatched.  Sessions cut short by the peer closing the
\* connection or by a stop request are left out.
C1_ExactlyOneResponse ==
  (stopCalls = 0 /\ wsClosedBy # "peer") =>
    \A i \in 1..reqCount :
      /\ Len(responses[i]) <= 1
      /\ Len(responses[i]) = 0 =>
           \/ function_call_id = i
           \/ recvPc = "dispatch" /\ message.type = "FunctionCallRequest" /\ message.id = i

\* C2: a request naming a function outside the registry goes to the except of the
\* dispatch block with an error naming the function; the await of a handler, raising
\* or not, leads nowhere but to the response paths or that except; and the except,
\* with the transport open, sends the error object as the response for the call id
\* and returns to the receive loop with the running flag and the transport untouched.
C2_FailureAnsweredAndRecovered ==
  [][ /\ (recvPc = "dispatch" /\ message.type = "FunctionCallRequest"
            /\ message.name \notin FUNCTION_MAP /\ recvPc' # recvPc)
         => /\ recvPc' = "send_err"
            /\ function_call_id' = message.id
            /\ \E k \in 1..Len(exc') : exc'[k] = message.name
      /\ (recvPc = "call" /\ recvPc' # recvPc /\ ~cancel["receiver"])
         => recvPc' \in {"send_resp", "af_resp", "ec_resp", "send_err"}
      /\ (recvPc = "send_err" /\ recvPc' # recvPc /\ ~cancel["receiver"] /\ ws = "open")
         => /\ responses' = [responses EXCEPT
                               ![function_call_id] = Append(@, ErrorOutput(exc))]
            /\ recvPc' = "recv"
            /\ is_running' = is_running /\ ws' = ws
    ]_vars

\* An unknown name and a raising handler were both answered with their error objects
\* and the receiver is back in its loop, the session Active.
C2_Witness ==
  \E i, j \in 1..MaxReq :
    /\ responses[i] = <<ErrorOutput(NotFound("unknown"))>>
    /\ responses[j] = <<ErrorOutput(HandlerError)>>
    /\ recvPc = "recv" /\ is_running /\ ws = "open"

\* C3: once Speaker.stop() has returned, none of the frames that were queued when it
\* was entered is in the playback queue, and none of them is written to the output
\* stream after the return.
C3_BargeInDiscardsQueued ==
  playedAtStop >= 0 =>
    /\ \A k \in 1..Len(pq) : pq[k] \notin bargeSnap
    /\ \A k \in (playedAtStop + 1)..Len(played) : played[k] \notin bargeSnap

\* C4: when the farewell of an end_call has been injected its response was sent
\* before; and if the client then closes the transport (no stop request, the peer
\* not closing first), the speaking-start signal and after it AgentAudioDone were
\* observed and the tail delay has elapsed.
C4_TerminationOrdering ==
  \A i \in 1..MaxReq :
    injected[i] = <<"farewell">> =>
      /\ responses[i] = <<ResultOutput>>
      /\ (wsClosedBy = "client" /\ stopCalls = 0)
           => speaking_started /\ audio_done /\ tailElapsed

\* The termination sequence of an end_call ran to its close.
C4_Witness ==
  /\ \E i \in 1..MaxReq : injected[i] = <<"farewell">>
  /\ closes = <<"end_call">> /\ wsClosedBy = "client" /\ stopCalls = 0
  /\ ws = "closed" /\ tailElapsed

\* C5: no capture or playback resource is released twice, and when run() is over
\* every one that was acquired has been released.
C5_ReleasedExactlyOnce ==
  /\ \A r \in Resources : released[r] <= 1
  /\ runPc \in {"returned", "done"} =>
       /\ audio # "live" /\ stream # "open" /\ spkStream # "open"
       /\ thrPc \in {"none", "exited"}

\* C6: after setup() returned failure the running flag is clear, no capture or
\* playback resource exists, neither task was started, and run() is returning or over.
C6_SetupFailureStartsNothing ==
  setupResult = "failed" =>
    /\ ~is_running
    /\ audio = "none" /\ stream = "none"
    /\ spkStream = "none" /\ thrPc = "none"
    /\ sendPc = "idle" /\ recvPc = "idle"
    /\ runPc \in {"setup_ret", "returned", "done"}

\* The settings message could not be sent and the background thread is over.
C6_Witness ==
  setupResult = "failed" /\ ws # "none" /\ settingsSent = 0 /\ runPc = "done"

\* C7: a stop request that follows another one, or that finds run() already over,
\* changes nothing of the session: not the running flag, no task, no pending
\* cancellation, no resource and no release count.
C7_RepeatedStopChangesNothing ==
  [][ (stopCalls' # stopCalls /\ (stopCalls >= 1 \/ runPc \in {"returned", "done"}))
        => UNCHANGED <<runVars, wsVars, micVars, sndVars, rcvVars, latVars, callVars,
                       ecVars, thrVars, spkVars, is_running, cancel>>
    ]_vars

\* A running session was stopped twice; its capture resources were released once.
C7_Witness ==
  /\ stopCalls = 2 /\ runPc = "done"
  /\ released["audio"] = 1 /\ released["stream"] = 1 /\ released["spkStream"] = 1

\* C8: once the end_call branch has closed the transport and cleared the running
\* flag, run() eventually returns.
C8_EndCallReachesClosed == ecCompleted ~> (runPc \in {"returned", "done"})

\* The receiver's CloseConnection branch has made its close() call.
CloseConnectionProcessed == \E k \in 1..Len(closes) : closes[k] = "close_connection"

\* C9: once the CloseConnection branch has run, the transport is closed and the
\* receiver is on its way out and reads no further message; and eventually both tasks
\* are finished, the running flag is clear and run() has returned.
C9_CloseConnectionEndsSession ==
  /\ [](CloseConnectionProcessed => ws = "closed" /\ recvPc \in {"exit", "join", "done"})
  /\ [][CloseConnectionProcessed => UNCHANGED <<reqCount, binCount, message>>]_vars
  /\ CloseConnectionProcessed ~>
       (sendPc = "done" /\ recvPc = "done" /\ ~is_running /\ runPc \in {"returned", "done"})

\* CloseConnection was processed in an Active session no stop request touched, and
\* the session is over.
C9_Witness ==
  /\ CloseConnectionProcessed /\ stopCalls = 0 /\ wsClosedBy = "client"
  /\ sendPc = "done" /\ recvPc = "done" /\ runPc = "done"

\* C10: the step that dispatches a FunctionCalling message at time now logs
\* now - last_function_response_time if the chain flag is set and that time is
\* recorded, and otherwise, with a last user message recorded, now - last_user_message.
C10_DecisionLatency ==
  [][ (recvPc = "dispatch" /\ message.type = "FunctionCalling" /\ recvPc' # recvPc) =>
        /\ (in_function_chain /\ last_function_response_time # NoTime)
             => latency' = <<"chain", now - last_function_response_time>>
        /\ (~(in_function_chain /\ last_function_response_time # NoTime)
              /\ last_user_message # NoTime)
             => latency' = <<"initial", now - last_user_message>>
    ]_vars

\* A chain latency was logged, measured from a function response later than the last
\* user message and earlier than the FunctionCalling message.
C10_Witness ==
  /\ latency = <<"chain", 1>>
  /\ last_function_response_time > last_user_message /\ last_user_message # NoTime

\* C11: the numbered frames the sender has written to the transport are frames the
\* callback handed off, in the order of the handoff and each at most once.
C11_SentInCaptureOrder ==
  /\ \A i \in 1..Len(sent) : sent[i] \in 1..capCount
  /\ \A i, j \in 1..Len(sent) : i < j => sent[i] < sent[j]

\* Two frames were handed off and both were sent.
C11_Witness == sent = <<1, 2>> /\ capCount = 2

\* C12: the frames written to the output stream are binary messages received from the
\* transport, in the order of their arrival and each at most once.
C12_PlayedInArrivalOrder ==
  /\ \A i \in 1..Len(played) : played[i] \in 1..binCount
  /\ \A i, j \in 1..Len(played) : i < j => played[i] < played[j]

\* Two frames that arrived while the termination wait was in progress were played.
C12_Witness == binAtFarewell = 0 /\ played = <<1, 2>>

\* C13: the Settings message is written at most once, and whenever an audio frame, a
\* FunctionCallResponse or an InjectAgentMessage has been written it was written before.
C13_SettingsOnceAndFirst ==
  /\ settingsSent <= 1
  /\ (\/ sent # <<>>
      \/ \E i \in 1..MaxReq : responses[i] # <<>> \/ injected[i] # <<>>)
       => settingsSent = 1

\* Audio frames were sent in a session with its one Settings message.
C13_Witness == settingsSent = 1 /\ sent = <<1, 2>> /\ sendPc = "get"

\* C14: the step that dispatches, in the main loop, a text message with an unknown
\* tag, AgentStartedSpeaking or AgentAudioDone returns to the receive loop and leaves
\* unchanged what was sent on the transport, the chain flag, the two latency times,
\* the playback queue, the running flag and the transport.
C14_OtherTagsIgnored ==
  [][ (recvPc = "dispatch" /\ recvPc' # recvPc
         /\ message.type \in {"Unrecognized", "AgentStartedSpeaking", "AgentAudioDone"})
        => /\ recvPc' = "recv"
           /\ UNCHANGED <<settingsSent, sent, responses, injected, in_function_chain,
                          last_user_message, last_function_response_time, pq,
                          is_running, ws, wsClosedBy, closes>>
    ]_vars

\* A message with an unknown tag was dispatched; the receiver is in its loop and the
\* session Active.
C14_Witness == unknownSeen /\ recvPc = "recv" /\ is_running /\ ws = "open"

\* C15: for agent_filler, the step that sends the response records the time and
\* injects nothing yet; the injected message is only ever found with the response
\* already sent; and the step that injects it finds the time recorded, returns to the
\* receive loop and leaves the running flag and the transport as they are.
C15_FillerOrder ==
  /\ [](\A i \in 1..MaxReq :
          injected[i] # <<>> /\ injected[i][1] = "filler"
            => injected[i] = <<"filler">> /\ responses[i] = <<ResultOutput>>)
  /\ [][ /\ (recvPc = "af_resp" /\ responses' # responses)
            => /\ responses' = [responses EXCEPT ![function_call_id] = <<ResultOutput>>]
               /\ last_function_response_time' = now
               /\ injected' = injected
               /\ recvPc' = "af_inject"
         /\ (recvPc = "af_inject" /\ injected' # injected)
            => /\ last_function_response_time # NoTime
               /\ recvPc' = "recv"
               /\ is_running' = is_running /\ ws' = ws
       ]_vars

\* An agent_filler call was answered and its message injected; the receiver is in its
\* loop and the session Active.
C15_Witness ==
  /\ \E i \in 1..MaxReq : injected[i] = <<"filler">> /\ responses[i] = <<ResultOutput>>
  /\ last_function_response_time # NoTime
  /\ recvPc = "recv" /\ is_running /\ ws = "open"

\* The session is Closed: run() has returned with the running flag clear.
Closed == runPc \in {"returned", "done"} /\ ~is_running

\* C16: once a failed transport read or write has ended the sender or the receiver,
\* the session eventually is Closed, both tasks over.
C16_TransportFailureEndsSession ==
  (failed # {}) ~> (Closed /\ sendPc = "done" /\ recvPc = "done")

\* The receiver was ended by a read on the closed connection, the sender followed, and
\* run() is over, without any stop request.
C16_Witness ==
  /\ "receiver" \in failed /\ sendPc = "done" /\ recvPc = "done"
  /\ runPc = "done" /\ stopCalls = 0

\* C17: the client calls close() on the transport at most once in a session, and only
\* under a timeout, which nothing but close_websocket_with_timeout provides.
C17_CloseBoundedOnce ==
  /\ Len(closes) <= 1
  /\ \A k \in 1..Len(closes) : closes[k] = "end_call"

\* C18: the barge-in drain is safe against the concurrently popping playback
\* thread: Speaker.stop() ends only by returning to the receiver's loop, and does
\* return; while it runs the playback thread is neither stopped nor ended; no
\* frame is both discarded by the drain and written to the output stream; and a
\* frame pushed after the drain has returned (the drain leaves the queue empty,
\* so every queued frame then is such a frame) is eventually written, unless a
\* later drain discards it or the Speaker is being left.
InStop == recvPc \in {"stop_check", "stop_get"}

C18_DrainSafe ==
  /\ [][(InStop /\ ~InStop') => recvPc' = "recv"]_vars
  /\ InStop ~> (recvPc = "recv")
  /\ [][InStop => (stopFlag' = stopFlag /\ thrPc' # "exited")]_vars
  /\ [](\A k \in 1..Len(played) : played[k] \notin discarded)
  /\ \A f \in 1..MaxBin :
       (playedAtStop >= 0 /\ \E k \in 1..Len(pq) : pq[k] = f)
         ~> (\/ \E k \in 1..Len(played) : played[k] = f
             \/ f \in discarded
             \/ stopFlag)

\* C19: a stop event that finds the session Active (the running flag set and
\* run() waiting for sender and receiver) clears the running flag and requests
\* cancellation of every task that has not ended; from then on the session
\* eventually is Closed with sender and receiver ended, the playback thread
\* stopped and joined, the stream closed, PortAudio terminated and the
\* transport closed, wherever sender and receiver were suspended at the event.
\* (A receiver cancelled before it entered the Speaker never started the thread.)
Active == is_running /\ runPc = "gather"

StoppedWhileActive == stopAt # <<>> /\ stopAt[1] = "gather"

ShutDown ==
  /\ Closed
  /\ sendPc = "done" /\ recvPc = "done"
  /\ \/ thrPc = "exited" /\ released["spkThread"] >= 1
     \/ thrPc = "none" /\ spkStream = "none"
  /\ stream = "closed" /\ audio = "terminated"
  /\ ws = "closed"

C19_StopShutsDown ==
  /\ [][(stopCalls' # stopCalls /\ voice_agent = "agent" /\ Active)
          => /\ ~is_running'
             /\ \A t \in Tasks : Alive(t) => cancel'[t]]_vars
  /\ StoppedWhileActive ~> ShutDown

\* The stop event found the receiver suspended on a transport read and the
\* sender on a queue pop, and the session was shut down.
C19_Witness ==
  /\ StoppedWhileActive /\ stopAt[2] = "get" /\ stopAt[3] = "recv"
  /\ ShutDown /\ thrPc = "exited"

\* C20: after the step that dispatches a FunctionCalling message the chain flag is
\* true, whatever the flag and the two recorded times were before.
C20_FunctionCallingSetsChain ==
  [][ (recvPc = "dispatch" /\ message.type = "FunctionCalling" /\ recvPc' # recvPc)
        => in_function_chain' ]_vars

\* C21: a stop event that finds the agent while setup() is in progress is not
\* lost: afterwards the session is never Active, the microphone, the sender and
\* the receiver are never started, and once run() is over a transport that
\* setup() had opened is not left open.
StoppedWhileConnecting ==
  stopAt # <<>> /\ stopAt[1] \in {"setup", "setup_send", "setup_ret"}

C21_StopWhileConnectingNotLost ==
  StoppedWhileConnecting =>
    /\ ~Active
    /\ audio = "none" /\ stream = "none"
    /\ sendPc = "idle" /\ recvPc = "idle"
    /\ runPc \in {"returned", "done"} => ws # "open"

\* C22: whatever the interleaving of start and stop events with the background
\* tasks, no instance's run() is executed by two background tasks, and no two
\* background tasks are at the same time in the part of run() where the running
\* flag is set and the transport (from start_microphone on, the microphone too)
\* is held.
Pipelines(t) == bgPc[t] \in {"mic", "gather"} /\ agRunning[bgRuns[t]]

C22_OneRunOneSession ==
  \A t1, t2 \in BgTasks : t1 # t2 =>
    /\ ~(bgRuns[t1] # 0 /\ bgRuns[t1] = bgRuns[t2])
    /\ ~(Pipelines(t1) /\ Pipelines(t2))
====
